---- MODULE Spec2Model ----
(***************************************************************************)
(* A model of loop.py: the camera is configured (auto or manual profile),  *)
(* started, a timestamped session directory is created, and an unbounded   *)
(* capture/sleep loop runs until an exception unwinds it through           *)
(* try/except KeyboardInterrupt/finally.                                   *)
(*                                                                         *)
(* Strings whose content the program inspects or builds (paths, time       *)
(* stamps, white-balance names) are sequences of one-character strings, so *)
(* that lower(), strftime() and os.path.join() are computed character by   *)
(* character.  Console lines and driver enum members are opaque tags.      *)
(***************************************************************************)
EXTENDS Integers, Sequences, FiniteSets, TLC

VARIABLES
    FULLY_AUTO_MODE,  \* module-level flag (line 32), fixed for the run
    MANUAL_SETTINGS,  \* module-level dictionary (lines 63-71), fixed for the run
    pc,               \* position of main()
    controls,         \* the local dictionary `controls` of main()
    output_directory, \* the local `output_directory` of main()
    exc,              \* the exception in flight, or "None"
    now,              \* local wall clock, in seconds after Epoch
    steps,            \* history: how often the wall clock was set back
    dirs,             \* file system: the directories that exist
    files,            \* file system: the image files written
    trace,            \* history: calls made and exceptions raised, in order
    stdout,           \* console lines printed, in order
    results           \* history: one record per create_output_directory call

vars == <<FULLY_AUTO_MODE, MANUAL_SETTINGS, pc, controls, output_directory, exc,
          now, steps, dirs, files, trace, stdout, results>>

\* ---------------------------------------------------------------- bounds

\* capture_file calls one run of the model makes at most
MaxCaptures == 2
\* seconds, at most, that one capture_file call blocks
MaxCaptureDur == 1
\* seconds, at most, that time.sleep overshoots its argument
MaxOversleep == 1
\* times, at most, that the wall clock is set back during one run
MaxClockSteps == 1
\* create_output_directory calls the directory specification makes at most
MaxDirCalls == 3
\* last clock reading of the directory specification
MaxDirClock == 3

\* ---------------------------------------------------------------- strings

UpperChars == <<"A", "B", "C", "D", "E", "F", "G", "H", "I", "J", "K", "L", "M",
                "N", "O", "P", "Q", "R", "S", "T", "U", "V", "W", "X", "Y", "Z">>
LowerChars == <<"a", "b", "c", "d", "e", "f", "g", "h", "i", "j", "k", "l", "m",
                "n", "o", "p", "q", "r", "s", "t", "u", "v", "w", "x", "y", "z">>
DigitChars == <<"0", "1", "2", "3", "4", "5", "6", "7", "8", "9">>

\* a mutant of lower: the string is looked up as written
lower_identity(s) == s

\* str.lower()
lower(s) ==
    [i \in DOMAIN s |->
        IF \E k \in DOMAIN UpperChars : UpperChars[k] = s[i]
        THEN LowerChars[CHOOSE k \in DOMAIN UpperChars : UpperChars[k] = s[i]]
        ELSE s[i]]

\* the decimal digits of n, zero-padded to at least `width` characters (%02d, %04d)
RECURSIVE zero_pad(_, _)
zero_pad(n, width) ==
    IF width <= 1 /\ n < 10
    THEN <<DigitChars[n + 1]>>
    ELSE Append(zero_pad(n \div 10, width - 1), DigitChars[(n % 10) + 1])

\* ---------------------------------------------------------------- clock

\* the local date and time at which the model's clock reads 0
Epoch == [year |-> 2025, month |-> 1, day |-> 3, hour |-> 23, minute |-> 59, second |-> 58]

\* datetime.now(): the broken-down local time when the clock reads t.  The
\* model's runs stay within the Epoch's month.
datetime_now(t) ==
    LET total == (Epoch.hour * 3600) + (Epoch.minute * 60) + Epoch.second + t
        sod   == total % 86400
    IN  [year   |-> Epoch.year,
         month  |-> Epoch.month,
         day    |-> Epoch.day + (total \div 86400),
         hour   |-> sod \div 3600,
         minute |-> (sod % 3600) \div 60,
         second |-> sod % 60]

\* datetime.strftime(fmt): literal characters are copied, %Y %m %d %H %M %S
\* are replaced by the zero-padded field
RECURSIVE strftime(_, _)
strftime(dt, fmt) ==
    IF fmt = <<>> THEN <<>>
    ELSE IF fmt[1] = "%" /\ Len(fmt) >= 2
    THEN LET d == fmt[2]
             field == CASE d = "Y" -> zero_pad(dt.year, 4)
                        [] d = "m" -> zero_pad(dt.month, 2)
                        [] d = "d" -> zero_pad(dt.day, 2)
                        [] d = "H" -> zero_pad(dt.hour, 2)
                        [] d = "M" -> zero_pad(dt.minute, 2)
                        [] d = "S" -> zero_pad(dt.second, 2)
                        [] OTHER   -> <<"%", d>>
         IN  field \o strftime(dt, SubSeq(fmt, 3, Len(fmt)))
    ELSE <<fmt[1]>> \o strftime(dt, Tail(fmt))

\* "%Y%m%d_%H%M%S" (line 16)
DirFormat == <<"%", "Y", "%", "m", "%", "d", "_", "%", "H", "%", "M", "%", "S">>
\* "image_%Y%m%d_%H%M%S.jpg" (line 185)
FileFormat == <<"i", "m", "a", "g", "e", "_", "%", "Y", "%", "m", "%", "d", "_",
                "%", "H", "%", "M", "%", "S", ".", "j", "p", "g">>

\* ---------------------------------------------------------------- file system

\* os.path.join(a, b) of posixpath, for two components
os_path_join(a, b) ==
    IF b # <<>> /\ b[1] = "/" THEN b
    ELSE IF a = <<>> \/ a[Len(a)] = "/" THEN a \o b
    ELSE a \o <<"/">> \o b

\* the proper ancestors of a path: its prefixes that end before a "/"
Ancestors(p) == {SubSeq(p, 1, i - 1) : i \in {j \in DOMAIN p : j > 1 /\ p[j] = "/"}}

\* os.makedirs(name, exist_ok): an existing directory is an error unless
\* exist_ok; creating the directory fails with an OSError when the file
\* system refuses it (fault), and otherwise creates it and its ancestors
os_makedirs(name, exist_ok, fs, fault) ==
    IF name \in fs
    THEN [raised |-> IF exist_ok THEN "None" ELSE "FileExistsError", dirs |-> fs]
    ELSE IF fault
    THEN [raised |-> "OSError", dirs |-> fs]
    ELSE [raised |-> "None", dirs |-> fs \cup Ancestors(name) \cup {name}]

\* a mutant of create_output_directory: exist_ok is left at its default
create_output_directory_strict(base_path, t, fs, fault) ==
    LET timestamp == strftime(datetime_now(t), DirFormat)
        directory == os_path_join(base_path, timestamp)
        made      == os_makedirs(directory, FALSE, fs, fault)
    IN  [raised |-> made.raised, dirs |-> made.dirs, ret |-> directory]

\* create_output_directory(base_path) called when the clock reads t on the
\* file system fs: the exception raised (or "None"), the file system
\* afterwards, and the value returned when nothing is raised
create_output_directory(base_path, t, fs, fault) ==
    LET timestamp == strftime(datetime_now(t), DirFormat)
        directory == os_path_join(base_path, timestamp)
        made      == os_makedirs(directory, TRUE, fs, fault)
    IN  [raised |-> made.raised, dirs |-> made.dirs, ret |-> directory]

\* ---------------------------------------------------------------- configuration

None == <<>>
Some(v) == <<v>>

\* OUTPUT_BASE_PATH (line 26)
OUTPUT_BASE_PATH ==
    <<"/", "m", "e", "d", "i", "a", "/", "n", "a", "g", "l", "i", "/", "a", "e", "d",
      "2", "9", "7", "2", "6", "-", "d", "3", "d", "e", "-", "4", "f", "7", "8", "-",
      "8", "4", "5", "0", "-", "0", "f", "3", "4", "b", "b", "1", "f", "a", "a", "b",
      "1", "1">>

\* a mutant of INTERVAL_SECONDS: an interval of half a second, which is no
\* whole second of the clock
INTERVAL_SECONDS_subsecond == 1 \div 2

\* INTERVAL_SECONDS (line 29)
INTERVAL_SECONDS == 10

\* AUTO_SETTINGS (lines 40-42)
AUTO_SETTINGS == [resolution |-> <<1920, 1080>>]

wb_auto         == <<"a", "u", "t", "o">>
wb_incandescent == <<"i", "n", "c", "a", "n", "d", "e", "s", "c", "e", "n", "t">>
wb_fluorescent  == <<"f", "l", "u", "o", "r", "e", "s", "c", "e", "n", "t">>
wb_daylight     == <<"d", "a", "y", "l", "i", "g", "h", "t">>
wb_cloudy       == <<"c", "l", "o", "u", "d", "y">>

\* AWB_MODE_MAP (lines 74-80): white-balance name -> libcamera enum member
AWB_MODE_MAP ==
    (wb_auto         :> "AwbModeEnum.Auto") @@
    (wb_incandescent :> "AwbModeEnum.Incandescent") @@
    (wb_fluorescent  :> "AwbModeEnum.Fluorescent") @@
    (wb_daylight     :> "AwbModeEnum.Daylight") @@
    (wb_cloudy       :> "AwbModeEnum.Cloudy")

\* MANUAL_SETTINGS as the source sets it (lines 63-71)
SourceManualSettings ==
    [resolution |-> <<640, 480>>, brightness |-> 50, contrast |-> 0, saturation |-> 0,
     sharpness |-> 0, exposure_time |-> Some(1000), white_balance |-> wb_auto]

\* white_balance strings the configuration is drawn from: the five names,
\* other spellings of them, and strings that are no name at all
WhiteBalances ==
    {wb_auto, wb_incandescent, wb_fluorescent, wb_daylight, wb_cloudy,
     <<"A", "U", "T", "O">>, <<"D", "a", "y", "l", "i", "g", "h", "t">>,
     <<"b", "o", "g", "u", "s">>, <<>>}

\* exposure_time values the configuration is drawn from
ExposureTimes == {None, Some(1000), Some(0)}

\* brightness, contrast, saturation, sharpness the configuration is drawn
\* from: the source's values, and values outside the documented ranges
Qualities == {<<50, 0, 0, 0>>, <<150, -101, 100, 7>>}

\* the configurations a run may start from; the source's own is among them
ManualSettingsSet ==
    {[resolution |-> <<640, 480>>, brightness |-> q[1], contrast |-> q[2],
      saturation |-> q[3], sharpness |-> q[4], exposure_time |-> e, white_balance |-> w] :
        q \in Qualities, e \in ExposureTimes, w \in WhiteBalances}

\* Python dict item assignment: d[k] = v
Put(d, k, v) == [x \in (DOMAIN d) \cup {k} |-> IF x = k THEN v ELSE d[x]]

\* a mutant of BaseControls: brightness is forced into its documented range
BaseControlsValidated(ms) ==
    [Brightness |-> IF ms.brightness > 100 THEN 100
                    ELSE IF ms.brightness < 0 THEN 0 ELSE ms.brightness,
     Contrast   |-> ms.contrast,
     Saturation |-> ms.saturation,
     Sharpness  |-> ms.sharpness]

\* the controls dictionary as first built (lines 109-114)
BaseControls(ms) ==
    [Brightness |-> ms.brightness,
     Contrast   |-> ms.contrast,
     Saturation |-> ms.saturation,
     Sharpness  |-> ms.sharpness]

\* a mutant of ExposureControls: the test is truthiness, not `is not None`
ExposureControlsTruthy(ms, c) ==
    IF ms.exposure_time # None /\ ms.exposure_time[1] # 0
    THEN Put(Put(Put(c, "AeEnable", FALSE), "ExposureTime", ms.exposure_time[1]),
             "AnalogueGain", "1.0")
    ELSE Put(c, "AeEnable", TRUE)

\* the exposure branch (lines 119-133) applied to the dictionary c
ExposureControls(ms, c) ==
    IF ms.exposure_time # None
    THEN Put(Put(Put(c, "AeEnable", FALSE), "ExposureTime", ms.exposure_time[1]),
             "AnalogueGain", "1.0")
    ELSE Put(c, "AeEnable", TRUE)

\* the lines the exposure branch prints (lines 128-129, 133)
ExposureLines(ms) ==
    IF ms.exposure_time # None
    THEN <<<<"[INFO] Using manual exposure: {} us", ms.exposure_time[1]>>,
           <<"[INFO] Locked AnalogueGain at 1.0 for minimal sensor amplification.">>>>
    ELSE <<<<"[INFO] Auto exposure enabled.">>>>

\* wb_mode_str (line 138)
wb_mode_str(ms) == lower(ms.white_balance)

\* the white-balance branch (lines 139-152) applied to the dictionary c
WhiteBalanceControls(ms, c) ==
    LET wb == wb_mode_str(ms)
    IN  IF wb \in DOMAIN AWB_MODE_MAP
        THEN IF wb = wb_auto
             THEN Put(c, "AwbEnable", TRUE)
             ELSE Put(Put(c, "AwbEnable", FALSE), "AwbMode", AWB_MODE_MAP[wb])
        ELSE Put(c, "AwbEnable", TRUE)

\* the line the white-balance branch prints (lines 143, 148, 152)
WhiteBalanceLines(ms) ==
    LET wb == wb_mode_str(ms)
    IN  IF wb \in DOMAIN AWB_MODE_MAP
        THEN IF wb = wb_auto
             THEN <<<<"[INFO] Auto white balance enabled.">>>>
             ELSE <<<<"[INFO] White balance mode set to '{}'.", wb>>>>
        ELSE <<<<"[WARN] Unrecognized white_balance '{}', defaulting to auto WB.", wb>>>>

\* the dictionary handed to set_controls (lines 109-152)
ResolvedControls(ms) == WhiteBalanceControls(ms, ExposureControls(ms, BaseControls(ms)))

\* ---------------------------------------------------------------- main()

\* what a blocking call can end with: it returns, the operator's interrupt
\* is raised in it, or it fails.  Exceptions are raised where the started
\* camera is at stake: in create_output_directory, capture_file and
\* time.sleep.  The interrupt is the run's one termination signal: none is
\* raised before start() or inside the except and finally clauses.
Outcomes == {"return", "KeyboardInterrupt", "OSError"}

Call(op, arg) == <<"call", op, arg>>
Raise(e, site) == <<"raise", e, site>>

\* the events a call adds to the history: the call, and what it raised
Events(op, arg, outcome) ==
    IF outcome = "return" THEN <<Call(op, arg)>> ELSE <<Call(op, arg), Raise(outcome, op)>>

Calls(op) == {i \in DOMAIN trace : trace[i][1] = "call" /\ trace[i][2] = op}
Raises == {i \in DOMAIN trace : trace[i][1] = "raise"}
NumCaptures == Cardinality(Calls("capture_file"))

\* main() is about to construct the camera object
Boot ==
    /\ pc = "open"
    /\ controls = <<>>
    /\ output_directory = <<>>
    /\ exc = "None"
    /\ now = 0
    /\ steps = 0
    /\ dirs = {}
    /\ files = {}
    /\ trace = <<>>
    /\ stdout = <<>>
    /\ results = <<>>

\* picam = Picamera2() (line 87)
Open ==
    /\ pc = "open"
    /\ trace' = Append(trace, Call("Picamera2", <<>>))
    /\ pc' = "configure"
    /\ UNCHANGED <<FULLY_AUTO_MODE, MANUAL_SETTINGS, controls, output_directory, exc,
                   now, steps, dirs, files, stdout, results>>

\* create_still_configuration and configure, in the branch FULLY_AUTO_MODE
\* selects (lines 92-106)
Configure ==
    /\ pc = "configure"
    /\ IF FULLY_AUTO_MODE
       THEN /\ trace' = Append(trace, Call("configure", [size |-> AUTO_SETTINGS.resolution]))
            /\ stdout' = stdout \o
                 <<<<"[INFO] Camera configured for FULLY AUTO mode.">>,
                   <<"       - Resolution:", AUTO_SETTINGS.resolution>>,
                   <<"       - Exposure, White Balance, etc. are automatic.">>>>
            /\ pc' = "start"
       ELSE /\ trace' = Append(trace, Call("configure", [size |-> MANUAL_SETTINGS.resolution]))
            /\ stdout' = stdout
            /\ pc' = "controls"
    /\ UNCHANGED <<FULLY_AUTO_MODE, MANUAL_SETTINGS, controls, output_directory, exc,
                   now, steps, dirs, files, results>>

\* the controls dictionary is built (lines 109-152)
BuildControls ==
    /\ pc = "controls"
    /\ controls' = ResolvedControls(MANUAL_SETTINGS)
    /\ stdout' = stdout \o ExposureLines(MANUAL_SETTINGS) \o WhiteBalanceLines(MANUAL_SETTINGS)
    /\ pc' = "set_controls"
    /\ UNCHANGED <<FULLY_AUTO_MODE, MANUAL_SETTINGS, output_directory, exc,
                   now, steps, dirs, files, trace, results>>

\* picam.set_controls(controls) and the settings log (lines 155-167)
SetControls ==
    /\ pc = "set_controls"
    /\ trace' = Append(trace, Call("set_controls", controls))
    /\ stdout' = stdout \o
         <<<<"[INFO] Camera configured for MANUAL mode with these settings:">>,
           <<"       - Resolution:      {}", MANUAL_SETTINGS.resolution>>,
           <<"       - Brightness:      {}", MANUAL_SETTINGS.brightness>>,
           <<"       - Contrast:        {}", MANUAL_SETTINGS.contrast>>,
           <<"       - Saturation:      {}", MANUAL_SETTINGS.saturation>>,
           <<"       - Sharpness:       {}", MANUAL_SETTINGS.sharpness>>,
           <<"       - ExposureTime:    {}", MANUAL_SETTINGS.exposure_time>>,
           <<"       - White Balance:   {}", MANUAL_SETTINGS.white_balance>>>> \o
         (IF MANUAL_SETTINGS.exposure_time # None
          THEN <<<<"       - AnalogueGain:    1.0 (locked)">>>> ELSE <<>>)
    /\ pc' = "start"
    /\ UNCHANGED <<FULLY_AUTO_MODE, MANUAL_SETTINGS, controls, output_directory, exc,
                   now, steps, dirs, files, results>>

\* picam.start() (lines 172-173)
Start ==
    /\ pc = "start"
    /\ trace' = Append(trace, Call("start", <<>>))
    /\ stdout' = Append(stdout, <<"[INFO] Camera started.">>)
    /\ pc' = "mkdir"
    /\ UNCHANGED <<FULLY_AUTO_MODE, MANUAL_SETTINGS, controls, output_directory, exc,
                   now, steps, dirs, files, results>>

\* output_directory = create_output_directory(OUTPUT_BASE_PATH) (lines
\* 175-176).  The statement stands before the try: whatever it raises leaves
\* main() at once.
CreateDir(outcome) ==
    /\ pc = "mkdir"
    /\ LET r == create_output_directory(OUTPUT_BASE_PATH, now, dirs, outcome = "OSError")
           raised == IF outcome = "KeyboardInterrupt" THEN outcome ELSE r.raised
       IN  /\ trace' = trace \o Events("create_output_directory", OUTPUT_BASE_PATH,
                                       IF raised = "None" THEN "return" ELSE raised)
           /\ dirs' = IF outcome = "KeyboardInterrupt" THEN dirs ELSE r.dirs
           /\ IF raised = "None"
              THEN /\ output_directory' = r.ret
                   /\ stdout' = Append(stdout, <<"[INFO] Images will be saved in: {}", r.ret>>)
                   /\ pc' = "try"
                   /\ exc' = exc
              ELSE /\ pc' = "raised"
                   /\ exc' = raised
                   /\ UNCHANGED <<output_directory, stdout>>
    /\ UNCHANGED <<FULLY_AUTO_MODE, MANUAL_SETTINGS, controls, now, steps, files, results>>

\* the try block is entered (lines 181-183)
EnterTry ==
    /\ pc = "try"
    /\ stdout' = Append(stdout, <<"[INFO] Starting image capture. Press Ctrl+C to stop.">>)
    /\ pc' = "capture"
    /\ UNCHANGED <<FULLY_AUTO_MODE, MANUAL_SETTINGS, controls, output_directory, exc,
                   now, steps, dirs, files, trace, results>>

\* one loop iteration up to the end of capture_file (lines 185-190): the
\* name is built from the clock, the call blocks for dur seconds and then
\* returns or raises
Capture(dur, outcome) ==
    /\ pc = "capture"
    /\ NumCaptures < MaxCaptures
    /\ LET timestamp_str == strftime(datetime_now(now), FileFormat)
           file_path     == os_path_join(output_directory, timestamp_str)
       IN  /\ stdout' = Append(stdout, <<"[CAPTURE] Saving image: {}", file_path>>)
           /\ trace' = trace \o Events("capture_file", file_path, outcome)
           /\ files' = IF outcome = "return" THEN files \cup {file_path} ELSE files
    /\ now' = now + dur
    /\ IF outcome = "return"
       THEN pc' = "sleep" /\ exc' = exc
       ELSE pc' = "except" /\ exc' = outcome
    /\ UNCHANGED <<FULLY_AUTO_MODE, MANUAL_SETTINGS, controls, output_directory,
                   steps, dirs, results>>

\* a mutant of Sleep: the loop goes on to the next capture without pausing
SleepSkipped(extra, outcome) ==
    /\ pc = "sleep"
    /\ pc' = "capture"
    /\ UNCHANGED <<FULLY_AUTO_MODE, MANUAL_SETTINGS, controls, output_directory, exc,
                   now, steps, dirs, files, trace, stdout, results>>

\* time.sleep(INTERVAL_SECONDS) (line 193): returns after the interval and
\* at most MaxOversleep seconds more, or raises before the interval is over
Sleep(extra, outcome) ==
    /\ pc = "sleep"
    /\ trace' = trace \o Events("sleep", INTERVAL_SECONDS, outcome)
    /\ IF outcome = "return"
       THEN /\ now' = now + INTERVAL_SECONDS + extra
            /\ pc' = "capture"
            /\ exc' = exc
       ELSE /\ now' = now + extra
            /\ pc' = "except"
            /\ exc' = outcome
    /\ UNCHANGED <<FULLY_AUTO_MODE, MANUAL_SETTINGS, controls, output_directory,
                   steps, dirs, files, stdout, results>>

\* mutants of Handles: the except clause catches nothing, or everything
HandlesNothing(e) == FALSE
HandlesAnything(e) == TRUE

\* the except clause's match (line 195)
Handles(e) == e = "KeyboardInterrupt"

\* a mutant of Except: the handler stops the camera itself
ExceptStops ==
    /\ pc = "except"
    /\ trace' = Append(trace, Call("stop", <<>>))
    /\ exc' = IF exc = "KeyboardInterrupt" THEN "None" ELSE exc
    /\ pc' = "finally"
    /\ UNCHANGED <<FULLY_AUTO_MODE, MANUAL_SETTINGS, controls, output_directory,
                   now, steps, dirs, files, stdout, results>>

\* an exception raised in the try block meets the except clause (lines
\* 195-197): a KeyboardInterrupt is handled, anything else stays in flight
Except ==
    /\ pc = "except"
    /\ IF Handles(exc)
       THEN /\ stdout' = Append(stdout, <<"[INFO] Stopping image capture...">>)
            /\ exc' = "None"
       ELSE UNCHANGED <<stdout, exc>>
    /\ pc' = "finally"
    /\ UNCHANGED <<FULLY_AUTO_MODE, MANUAL_SETTINGS, controls, output_directory,
                   now, steps, dirs, files, trace, results>>

\* the finally block (lines 199-202): the camera is stopped, and main()
\* returns or the exception in flight leaves it
Finally ==
    /\ pc = "finally"
    /\ trace' = Append(trace, Call("stop", <<>>))
    /\ stdout' = Append(stdout, <<"[INFO] Camera stopped. Exiting.">>)
    /\ pc' = IF exc = "None" THEN "done" ELSE "raised"
    /\ UNCHANGED <<FULLY_AUTO_MODE, MANUAL_SETTINGS, controls, output_directory, exc,
                   now, steps, dirs, files, results>>

\* the environment has set the local wall clock back to the reading t (a
\* daylight-saving fall-back, a clock correction) since the loop last read
\* it; the loop reads the clock only at the top of an iteration
ClockStepBack(t) ==
    /\ pc = "capture"
    /\ steps < MaxClockSteps
    /\ t < now
    /\ now' = t
    /\ steps' = steps + 1
    /\ UNCHANGED <<FULLY_AUTO_MODE, MANUAL_SETTINGS, pc, controls, output_directory, exc,
                   dirs, files, trace, stdout, results>>

\* the program's steps
Program ==
    \/ Open
    \/ Configure
    \/ BuildControls
    \/ SetControls
    \/ Start
    \/ \E outcome \in Outcomes : CreateDir(outcome)
    \/ EnterTry
    \/ \E dur \in 0..MaxCaptureDur, outcome \in Outcomes : Capture(dur, outcome)
    \/ \E extra \in 0..MaxOversleep, outcome \in Outcomes : Sleep(extra, outcome)
    \/ Except
    \/ Finally

\* a run of the script as the source configures it, in either mode
Init ==
    /\ FULLY_AUTO_MODE \in BOOLEAN
    /\ MANUAL_SETTINGS = SourceManualSettings
    /\ Boot

Next ==
    \/ Program
    \/ \E t \in 0..(now - 1) : ClockStepBack(t)

Spec == Init /\ [][Next]_vars

\* the blocking calls return, and the except and finally clauses run, unless
\* an exception takes the run elsewhere
Progress ==
    \/ \E dur \in 0..MaxCaptureDur : Capture(dur, "return")
    \/ \E extra \in 0..MaxOversleep : Sleep(extra, "return")
    \/ Except
    \/ Finally

\* the run under a clock that is never set back, with the progress the
\* single thread of control guarantees
FairSpec == Init /\ [][Program]_vars /\ WF_vars(Progress)

\* a run under any configuration of the bounded sets, with a clock that is
\* never set back
InitConfig ==
    /\ FULLY_AUTO_MODE \in BOOLEAN
    /\ MANUAL_SETTINGS \in ManualSettingsSet
    /\ Boot

NextConfig == Program

SpecConfig == InitConfig /\ [][NextConfig]_vars

\* ---------------------------------------------------------------- create_output_directory alone

\* base paths create_output_directory is called with
BasePaths == {OUTPUT_BASE_PATH, <<"/", "t", "m", "p", "/", "x">>}

InitDir ==
    /\ FULLY_AUTO_MODE = TRUE
    /\ MANUAL_SETTINGS = SourceManualSettings
    /\ pc = "idle"
    /\ controls = <<>>
    /\ output_directory = <<>>
    /\ exc = "None"
    /\ now = 0
    /\ steps = 0
    /\ dirs = {}
    /\ files = {}
    /\ trace = <<>>
    /\ stdout = <<>>
    /\ results = <<>>

\* one call create_output_directory(base_path) (lines 9-19), recorded with
\* the clock reading, whether the directory was there before, and whether
\* it is there afterwards
DirCall(base_path, fault) ==
    /\ pc = "idle"
    /\ Len(results) < MaxDirCalls
    /\ LET r == create_output_directory(base_path, now, dirs, fault)
       IN  /\ dirs' = r.dirs
           /\ results' = Append(results,
                [base |-> base_path, t |-> now, raised |-> r.raised, ret |-> r.ret,
                 before |-> r.ret \in dirs, after |-> r.ret \in r.dirs])
    /\ UNCHANGED <<FULLY_AUTO_MODE, MANUAL_SETTINGS, pc, controls, output_directory, exc,
                   now, steps, files, trace, stdout>>

\* a second passes
DirTick ==
    /\ pc = "idle"
    /\ now < MaxDirClock
    /\ now' = now + 1
    /\ UNCHANGED <<FULLY_AUTO_MODE, MANUAL_SETTINGS, pc, controls, output_directory, exc,
                   steps, dirs, files, trace, stdout, results>>

NextDir ==
    \/ \E base_path \in BasePaths, fault \in BOOLEAN : DirCall(base_path, fault)
    \/ DirTick

SpecDir == InitDir /\ [][NextDir]_vars

\* ---------------------------------------------------------------- properties of a run

Started == Calls("start") # {}
Terminated == pc \in {"done", "raised"}
NumStops == Cardinality(Calls("stop"))

\* the places of the history where the operator's interrupt, or another
\* exception, was raised in one of the calls `sites`
InterruptsIn(sites) ==
    {i \in Raises : trace[i][2] = "KeyboardInterrupt" /\ trace[i][3] \in sites}
FaultsIn(sites) ==
    {i \in Raises : trace[i][2] # "KeyboardInterrupt" /\ trace[i][3] \in sites}

\* no call of `ops` is made after place i of the history
NoneAfter(i, ops) == \A j \in DOMAIN trace : j > i /\ trace[j][1] = "call" => trace[j][2] \notin ops

\* C1: once picam.start() has returned, every way main() ends (returning or
\* raising) has been preceded by exactly one picam.stop() call: no terminated
\* state has the camera started and never stopped, or stopped twice.
C1_StoppedOnceOnEveryExit == (Terminated /\ Started) => NumStops = 1

\* C2: when the operator's interrupt is raised in the capture loop (in
\* capture_file or in the sleep), no capture_file call follows it, the camera
\* is stopped exactly once, and main() returns normally with no exception in
\* flight; and the run does reach that end.
C2_InterruptSafe ==
    \A i \in InterruptsIn({"capture_file", "sleep"}) :
        /\ NoneAfter(i, {"capture_file", "sleep"})
        /\ NumStops <= 1
        /\ \A p \in Calls("stop") : p > i
        /\ pc \in {"except", "finally", "done"}
        /\ pc = "done" => NumStops = 1 /\ exc = "None"

\* C2, in full: the state property above in every state, and the run
\* reaching the normal return with its one stop call.
C2_InterruptStopsOnceAndReturns ==
    /\ []C2_InterruptSafe
    /\ (InterruptsIn({"capture_file", "sleep"}) # {}) ~> (pc = "done" /\ NumStops = 1)

C2_Witness ==
    /\ InterruptsIn({"sleep"}) # {}
    /\ NumCaptures >= 1
    /\ pc = "done"
    /\ NumStops = 1

\* C5: when a capture_file call fails with an exception other than the
\* operator's interrupt, the failure is not handled and not retried: no
\* capture_file and no sleep call follows, the camera is stopped exactly
\* once, and the exception then leaves main(): the run ends raised, never
\* done; and the run does reach that end.
C5_FaultSafe ==
    \A i \in FaultsIn({"capture_file"}) :
        /\ NoneAfter(i, {"capture_file", "sleep"})
        /\ NumStops <= 1
        /\ \A p \in Calls("stop") : p > i
        /\ pc \in {"except", "finally", "raised"}
        /\ exc = trace[i][2]
        /\ pc = "raised" => NumStops = 1

\* C5, in full: the state property above in every state, and the run
\* ending raised with its one stop call.
C5_CaptureFaultPropagates ==
    /\ []C5_FaultSafe
    /\ (FaultsIn({"capture_file"}) # {}) ~> (pc = "raised" /\ NumStops = 1)

C5_Witness ==
    /\ FaultsIn({"capture_file"}) # {}
    /\ NumCaptures >= 2
    /\ pc = "raised"
    /\ NumStops = 1

\* the calls of the loop body, in the order made
LoopCalls == SelectSeq(trace, LAMBDA e : e[1] = "call" /\ e[2] \in {"capture_file", "sleep"})

\* C6: from the started state, while no interrupt and no fault occurs, the
\* run never reaches the stop and keeps capturing; the loop's calls strictly
\* alternate capture_file, sleep(INTERVAL_SECONDS), capture_file, ...,
\* beginning with a capture, and every sleep is asked for INTERVAL_SECONDS
\* whatever the capture took.  (The model makes MaxCaptures captures at most:
\* "infinitely often" is every capture below that bound being followed by
\* another.)
C6_LoopShape ==
    /\ Raises = {} => NumStops = 0 /\ ~Terminated /\ exc = "None"
    /\ \A k \in DOMAIN LoopCalls :
          IF k % 2 = 1
          THEN LoopCalls[k][2] = "capture_file"
          ELSE LoopCalls[k][2] = "sleep" /\ LoopCalls[k][3] = INTERVAL_SECONDS
    /\ pc = "sleep" => Len(LoopCalls) % 2 = 1
    /\ pc = "capture" => Len(LoopCalls) % 2 = 0

\* C6, in full: the loop's shape in every state, and every capture below
\* the bound followed by another unless something is raised.
C6_CapturesForeverAlternating ==
    /\ []C6_LoopShape
    /\ \A n \in 0..(MaxCaptures - 1) :
          (pc \in {"capture", "sleep"} /\ NumCaptures = n) ~> (NumCaptures > n \/ Raises # {})

C6_Witness ==
    /\ Raises = {}
    /\ NumCaptures = 2
    /\ Len(LoopCalls) = 4
    /\ pc = "capture"

\* C7 as claimed: within one run no two capture_file calls are given the
\* same path, for every sequence of loop iterations.
C7_PathsAlwaysDistinct ==
    \A i, j \in Calls("capture_file") : i # j => trace[i][3] # trace[j][3]

\* C7 as amended: provided the local wall clock is not set back during the
\* run, no two capture_file calls are given the same path.
C7_PathsDistinctUnlessClockSetBack == steps = 0 => C7_PathsAlwaysDistinct

C7_Witness ==
    /\ steps = 0
    /\ NumCaptures = 2
    /\ now > 0

\* C9: the device's operations keep the lifecycle order: configure once and
\* before start, start once, the output directory created once, after start
\* and before the first capture, nothing configured or started after start,
\* every capture after start and before stop, and no call at all after stop.
C9_LifecycleOrder ==
    /\ \A op \in {"Picamera2", "configure", "set_controls", "start",
                  "create_output_directory", "stop"} : Cardinality(Calls(op)) <= 1
    /\ \A c \in Calls("configure") : \E o \in Calls("Picamera2") : o < c
    /\ \A s \in Calls("start") :
          /\ \E c \in Calls("configure") : c < s
          /\ NoneAfter(s, {"Picamera2", "configure", "set_controls", "start"})
    /\ \A m \in Calls("create_output_directory") : \E s \in Calls("start") : s < m
    /\ \A c \in Calls("capture_file") :
          /\ \E s \in Calls("start") : s < c
          /\ \E m \in Calls("create_output_directory") : m < c
          /\ \A p \in Calls("stop") : c < p
    /\ \A p \in Calls("stop") :
          /\ \E s \in Calls("start") : s < p
          /\ \A j \in DOMAIN trace : j > p => trace[j][1] # "call"
    /\ pc \in {"capture", "sleep", "except", "finally", "done"} =>
          /\ Cardinality(Calls("configure")) = 1
          /\ Cardinality(Calls("start")) = 1
          /\ Cardinality(Calls("create_output_directory")) = 1
    /\ pc = "done" => NumStops = 1

C9_Witness ==
    /\ pc = "done"
    /\ NumCaptures = 2
    /\ ~FULLY_AUTO_MODE

\* ---------------------------------------------------------------- properties of the configuration

\* the dictionaries set_controls was called with
ControlSets == {trace[i][3] : i \in Calls("set_controls")}

\* a and b are the same string up to the case of their letters
SameIgnoringCase(a, b) ==
    /\ Len(a) = Len(b)
    /\ \A i \in DOMAIN a :
          \/ a[i] = b[i]
          \/ \E k \in DOMAIN UpperChars : {a[i], b[i]} = {UpperChars[k], LowerChars[k]}

\* the white-balance names that white_balance spells, case aside
Spelled(w) == {name \in DOMAIN AWB_MODE_MAP : SameIgnoringCase(w, name)}

WarningLines == {i \in DOMAIN stdout :
                    stdout[i][1] = "[WARN] Unrecognized white_balance '{}', defaulting to auto WB."}

\* C3: in manual mode the control set has, for a white_balance that spells
\* "auto" (in any case), AwbEnable=True and no AwbMode; for one that spells
\* incandescent, fluorescent, daylight or cloudy, AwbEnable=False and AwbMode
\* the AWB_MODE_MAP entry of that name; for any other string AwbEnable=True,
\* no AwbMode and a warning line on the console; whatever exposure_time is.
\* An unrecognized string raises nothing: the run goes on to set_controls.
C3_WhiteBalanceResolution ==
    /\ \A c \in ControlSets :
          LET w == MANUAL_SETTINGS.white_balance
          IN  /\ "AwbEnable" \in DOMAIN c
              /\ wb_auto \in Spelled(w) =>
                    c["AwbEnable"] = TRUE /\ "AwbMode" \notin DOMAIN c
              /\ \A name \in Spelled(w) \ {wb_auto} :
                    /\ c["AwbEnable"] = FALSE
                    /\ "AwbMode" \in DOMAIN c
                    /\ c["AwbMode"] = AWB_MODE_MAP[name]
              /\ Spelled(w) = {} =>
                    /\ c["AwbEnable"] = TRUE
                    /\ "AwbMode" \notin DOMAIN c
                    /\ WarningLines # {}
    /\ pc \in {"controls", "set_controls"} => exc = "None" /\ Raises = {}
    /\ (~FULLY_AUTO_MODE /\ Started) => ControlSets # {}

C3_Witness ==
    /\ ControlSets # {}
    /\ MANUAL_SETTINGS.white_balance = <<"b", "o", "g", "u", "s">>
    /\ MANUAL_SETTINGS.exposure_time = None
    /\ WarningLines # {}

\* C4: in manual mode, with an exposure_time that is not None the control
\* set has AeEnable=False, ExposureTime the configured value and
\* AnalogueGain=1.0; with None it has AeEnable=True and neither an
\* ExposureTime nor an AnalogueGain key.
C4_ExposureResolution ==
    \A c \in ControlSets :
        LET e == MANUAL_SETTINGS.exposure_time
        IN  /\ "AeEnable" \in DOMAIN c
            /\ e # None =>
                  /\ c["AeEnable"] = FALSE
                  /\ {"ExposureTime", "AnalogueGain"} \subseteq DOMAIN c
                  /\ c["ExposureTime"] = e[1]
                  /\ c["AnalogueGain"] = "1.0"
            /\ e = None =>
                  /\ c["AeEnable"] = TRUE
                  /\ "ExposureTime" \notin DOMAIN c
                  /\ "AnalogueGain" \notin DOMAIN c

C4_Witness ==
    /\ ControlSets # {}
    /\ MANUAL_SETTINGS.exposure_time = Some(0)
    /\ \A c \in ControlSets : c["ExposureTime"] = 0 /\ c["AeEnable"] = FALSE

\* C10: one profile is applied per run, the one FULLY_AUTO_MODE selects.  In
\* auto mode configure gets the resolution of AUTO_SETTINGS and set_controls
\* is never called, whatever MANUAL_SETTINGS holds; in manual mode configure
\* gets the resolution of MANUAL_SETTINGS and set_controls is called exactly
\* once, after configure and before start, with Brightness, Contrast,
\* Saturation and Sharpness the configured values as they are.
C10_OneProfile ==
    /\ Cardinality(Calls("configure")) <= 1
    /\ Cardinality(Calls("set_controls")) <= 1
    /\ FULLY_AUTO_MODE =>
          /\ Calls("set_controls") = {}
          /\ controls = <<>>
          /\ \A i \in Calls("configure") : trace[i][3] = [size |-> <<1920, 1080>>]
    /\ ~FULLY_AUTO_MODE =>
          /\ \A i \in Calls("configure") : trace[i][3] = [size |-> MANUAL_SETTINGS.resolution]
          /\ \A i \in Calls("set_controls") :
                /\ \E c \in Calls("configure") : c < i
                /\ \A s \in Calls("start") : i < s
          /\ \A s \in Calls("start") : \E i \in Calls("set_controls") : i < s
          /\ \A c \in ControlSets :
                /\ c["Brightness"] = MANUAL_SETTINGS.brightness
                /\ c["Contrast"] = MANUAL_SETTINGS.contrast
                /\ c["Saturation"] = MANUAL_SETTINGS.saturation
                /\ c["Sharpness"] = MANUAL_SETTINGS.sharpness

C10_Witness ==
    /\ ~FULLY_AUTO_MODE
    /\ Started
    /\ MANUAL_SETTINGS.brightness = 150
    /\ MANUAL_SETTINGS.white_balance = wb_cloudy
    /\ \A c \in ControlSets : c["Brightness"] = 150

\* ---------------------------------------------------------------- properties of create_output_directory

\* C8: two calls create_output_directory(base) in the same clock second
\* return the same path, a call that finds the directory there raises
\* nothing, and the directory exists after every call that returns; two
\* calls in different clock seconds return different paths, and a call
\* finds its directory there only when a call of the same second made it.
C8_SameSecondSamePath ==
    /\ \A i \in DOMAIN results :
          /\ results[i].before => results[i].raised = "None"
          /\ results[i].raised = "None" => results[i].after
          /\ results[i].before =>
                \E j \in 1..(i - 1) : /\ results[j].raised = "None"
                                      /\ results[j].base = results[i].base
                                      /\ results[j].t = results[i].t
    /\ \A i, j \in DOMAIN results :
          (results[i].base = results[j].base) =>
              /\ results[i].t = results[j].t => results[i].ret = results[j].ret
              /\ results[i].t # results[j].t => results[i].ret # results[j].ret

C8_Witness ==
    /\ Len(results) = 3
    /\ results[1].base = results[2].base /\ results[2].base = results[3].base
    /\ results[1].t = results[2].t
    /\ results[2].before /\ results[2].raised = "None" /\ results[2].after
    /\ results[3].t > results[2].t
    /\ ~results[3].before /\ results[3].raised = "None"

====
